---- MODULE Spec2Model ----
(***************************************************************************)
(* DPLL SAT solver (src/src/main.rs): solve() with unit propagation and    *)
(* recursive case split, and simplify_formula().  The recursion of solve   *)
(* is modelled by an explicit call stack of frames; every frame holds the  *)
(* locals of one invocation (formula, assignment, pivot) and its position. *)
(***************************************************************************)
EXTENDS Integers, Sequences, FiniteSets

\* ---------------------------------------------------------------- bounds
NumVars == 3
MaxClauseLen == 2
MaxClauses == 3

\* ------------------------------------------------------------ data model
\* type Literal = i32, nonzero by the input contract.  The magnitudes stay
\* far from i32::MIN, the one value whose negation overflows.
Literal == {l \in (0 - NumVars)..NumVars : l # 0}

SeqsUpTo(S, n) == UNION {[1..k -> S] : k \in 0..n}

\* type Clause = Vec<Literal>
Clause == SeqsUpTo(Literal, MaxClauseLen)

\* type Formula = Vec<Clause>
Formula == SeqsUpTo(Clause, MaxClauses)

\* enum Status { Sat(Vec<Literal>), Unsat }
Sat(model) == [tag |-> "Sat", model |-> model]
Unsat == [tag |-> "Unsat", model |-> <<>>]
\* no call has returned a value that is still to be consumed
NoStatus == [tag |-> "None", model |-> <<>>]

\* Option<Literal>
None == <<>>
Some(l) == <<l>>

\* ------------------------------------------------------- simplify_formula
\* clause.contains(&lit)
contains(clause, lit) == \E i \in DOMAIN clause : clause[i] = lit

\* new_clause.retain(|&l| l != neg_lit)
retain_FirstOnly(clause, neg_lit) ==
    LET i == CHOOSE i \in DOMAIN clause :
                 clause[i] = neg_lit /\ \A j \in 1..i - 1 : clause[j] # neg_lit
    IN SubSeq(clause, 1, i - 1) \o SubSeq(clause, i + 1, Len(clause))

retain(clause, neg_lit) ==
    LET keep(l) == l # neg_lit IN SelectSeq(clause, keep)

\* one iteration of `for clause in formula`: what is pushed on new_formula
simplify_clause_SkipRule2(clause, lit) ==
    IF contains(clause, lit) THEN <<>> ELSE <<clause>>

simplify_clause_KeepSatisfied(clause, lit) ==
    LET neg_lit == 0 - lit IN
    IF contains(clause, neg_lit) THEN <<retain(clause, neg_lit)>>
    ELSE <<clause>>

simplify_clause(clause, lit) ==
    IF contains(clause, lit) THEN <<>>
    ELSE LET neg_lit == 0 - lit IN
         IF contains(clause, neg_lit) THEN <<retain(clause, neg_lit)>>
         ELSE <<clause>>

RECURSIVE simplify_loop(_, _, _, _)
simplify_loop(formula, lit, i, new_formula) ==
    IF i > Len(formula) THEN new_formula
    ELSE simplify_loop(formula, lit, i + 1,
                       new_formula \o simplify_clause(formula[i], lit))

simplify_formula(formula, lit) == simplify_loop(formula, lit, 1, <<>>)

\* ------------------------------------------------------------------ solve
\* formula.iter().any(|c| c.is_empty())
any_empty_FirstOnly(formula) == Len(formula) > 0 /\ Len(formula[1]) = 0

any_empty(formula) == \E i \in DOMAIN formula : Len(formula[i]) = 0

\* formula.iter().find_map(|c| if c.len() == 1 { Some(c[0]) } else { None })
RECURSIVE find_unit(_, _)
find_unit(formula, i) ==
    IF i > Len(formula) THEN None
    ELSE IF Len(formula[i]) = 1 THEN Some(formula[i][1])
    ELSE find_unit(formula, i + 1)

unit_lit(formula) == find_unit(formula, 1)

\* the body of `loop { ... }`: which of its four exits one iteration takes
loop_exit_UnitFirst(formula) ==
    IF unit_lit(formula) # None THEN "unit"
    ELSE IF any_empty(formula) THEN "unsat"
    ELSE IF formula = <<>> THEN "sat"
    ELSE "break"

loop_exit(formula) ==
    IF any_empty(formula) THEN "unsat"
    ELSE IF formula = <<>> THEN "sat"
    ELSE IF unit_lit(formula) # None THEN "unit"
    ELSE "break"

\* let pivot = formula[0][0];
pivot_of_LastLiteral(formula) == formula[1][Len(formula[1])]

pivot_of(formula) == formula[1][1]

\* the literal assumed by branch B
branch_b_lit_NotNegated(pivot) == pivot

branch_b_lit(pivot) == 0 - pivot

\* res.extend(assignment); res.push(lit); Status::Sat(res)
extend_model_DropLocal(res, assignment, lit) == Sat(res \o <<lit>>)

extend_model_PushTwice(res, assignment, lit) ==
    Sat(res \o assignment \o <<lit, lit>>)

extend_model(res, assignment, lit) == Sat(res \o assignment \o <<lit>>)

\* the locals of a fresh invocation solve(formula)
Frame(formula) ==
    [formula |-> formula, assignment |-> <<>>, pc |-> "loop", pivot |-> 0]

VARIABLES
    input,         \* the formula the driver passed to the outermost solve
    stack,         \* active invocations of solve, outermost first
    ret,           \* the Status returned by the invocation that just ended
    lastSimplify   \* arguments and result of the latest simplify_formula call

vars == <<input, stack, ret, lastSimplify>>

Top == stack[Len(stack)]
Callers == SubSeq(stack, 1, Len(stack) - 1)
SetTop(f) == [stack EXCEPT ![Len(stack)] = f]
Running == stack # <<>>
Done == stack = <<>>
AtLoop(exit) == Running /\ Top.pc = "loop" /\ loop_exit(Top.formula) = exit

Simplified(formula, lit) ==
    [formula |-> formula, lit |-> lit, result |-> simplify_formula(formula, lit)]

Init ==
    /\ input \in Formula
    /\ stack = <<Frame(input)>>
    /\ ret = NoStatus
    /\ lastSimplify = <<>>

\* lines 39-41: a conflict clause ends the invocation
ReturnConflict ==
    /\ AtLoop("unsat")
    /\ stack' = Callers
    /\ ret' = Unsat
    /\ UNCHANGED <<input, lastSimplify>>

\* lines 44-46: no clause left
ReturnSatisfied ==
    /\ AtLoop("sat")
    /\ stack' = Callers
    /\ ret' = Sat(Top.assignment)
    /\ UNCHANGED <<input, lastSimplify>>

\* lines 54-59: assign the forced literal and simplify
UnitPropagate ==
    /\ AtLoop("unit")
    /\ LET lit == unit_lit(Top.formula)[1]
           s == Simplified(Top.formula, lit)
       IN /\ stack' = SetTop([Top EXCEPT !.assignment = Append(@, lit),
                                         !.formula = s.result])
          /\ lastSimplify' = s
    /\ UNCHANGED <<input, ret>>

\* line 60: no unit clause, leave the loop
LoopBreak ==
    /\ AtLoop("break")
    /\ stack' = SetTop([Top EXCEPT !.pc = "branch"])
    /\ UNCHANGED <<input, ret, lastSimplify>>

\* lines 66-72: pick the pivot and call solve on branch A
BranchA ==
    /\ Running /\ Top.pc = "branch"
    /\ LET pivot == pivot_of(Top.formula)
           s == Simplified(Top.formula, pivot)
       IN /\ stack' = Append(SetTop([Top EXCEPT !.pc = "callA", !.pivot = pivot]),
                             Frame(s.result))
          /\ lastSimplify' = s
    /\ UNCHANGED <<input, ret>>

\* lines 73-77: branch A succeeded
ReturnA ==
    /\ Running /\ Top.pc = "callA" /\ ret.tag = "Sat"
    /\ stack' = Callers
    /\ ret' = extend_model(ret.model, Top.assignment, Top.pivot)
    /\ UNCHANGED <<input, lastSimplify>>

\* lines 78-84: branch A failed, call solve on branch B
BranchB ==
    /\ Running /\ Top.pc = "callA" /\ ret.tag = "Unsat"
    /\ LET s == Simplified(Top.formula, branch_b_lit(Top.pivot))
       IN /\ stack' = Append(SetTop([Top EXCEPT !.pc = "callB"]), Frame(s.result))
          /\ lastSimplify' = s
    /\ ret' = NoStatus
    /\ UNCHANGED input

\* lines 85-89: branch B succeeded
ReturnB ==
    /\ Running /\ Top.pc = "callB" /\ ret.tag = "Sat"
    /\ stack' = Callers
    /\ ret' = extend_model(ret.model, Top.assignment, branch_b_lit(Top.pivot))
    /\ UNCHANGED <<input, lastSimplify>>

\* line 90: both branches failed
ReturnBothFailed ==
    /\ Running /\ Top.pc = "callB" /\ ret.tag = "Unsat"
    /\ stack' = Callers
    /\ ret' = Unsat
    /\ UNCHANGED <<input, lastSimplify>>

Next ==
    \/ ReturnConflict
    \/ ReturnSatisfied
    \/ UnitPropagate
    \/ LoopBreak
    \/ BranchA
    \/ ReturnA
    \/ BranchB
    \/ ReturnB
    \/ ReturnBothFailed

Spec == Init /\ [][Next]_vars

\* solve is sequential code: an invocation that can take a step takes it
FairSpec == Spec /\ WF_vars(Next)

\* ------------------------------------------------------------ properties
Abs(l) == IF l < 0 THEN 0 - l ELSE l
Range(seq) == {seq[i] : i \in DOMAIN seq}
VarsOf(formula) == UNION {{Abs(l) : l \in Range(formula[i])} : i \in DOMAIN formula}
Finished(tag) == Done /\ ret.tag = tag
Occurrences(model, v) == Cardinality({i \in DOMAIN model : Abs(model[i]) = v})
\* the k-th smallest element of a set of indices
Kth(S, k) == CHOOSE i \in S : Cardinality({j \in S : j <= i}) = k
\* sub is seq restricted to the positions in S, in their order
IsRestriction(sub, seq, S) ==
    /\ Len(sub) = Cardinality(S)
    /\ \A k \in 1..Len(sub) : sub[k] = seq[Kth(S, k)]
\* a truth assignment, given as the set of its true variables, satisfies a formula
Satisfies(trueVars, formula) ==
    \A i \in DOMAIN formula : \E j \in DOMAIN formula[i] :
        LET l == formula[i][j] IN
        IF l > 0 THEN l \in trueVars ELSE Abs(l) \notin trueVars
Satisfiable(formula) == \E trueVars \in SUBSET (1..NumVars) : Satisfies(trueVars, formula)

\* C1 soundness: when solve(input) returns Sat(M), every clause of input
\* contains a literal that is an entry of M.
C1_Soundness ==
    Finished("Sat") =>
        \A i \in DOMAIN input : Range(input[i]) \cap Range(ret.model) # {}

\* solve returned a model of a formula with several clauses after a failed branch A
C1_Witness ==
    /\ Finished("Sat") /\ Len(input) >= 2 /\ Len(ret.model) >= 2
    /\ lastSimplify # <<>> /\ lastSimplify.lit < 0

\* C2 completeness: when solve(input) returns Unsat, no truth assignment
\* satisfies every clause of input.
C2_Completeness == Finished("Unsat") => ~Satisfiable(input)

\* solve returned Unsat after both branches of a case split failed
C2_Witness ==
    /\ Finished("Unsat")
    /\ \A i \in DOMAIN input : Len(input[i]) = 2
    /\ Cardinality(VarsOf(input)) >= 2

\* C3 as stated: when solve(input) returns Sat(M), every variable of input
\* is present in M exactly once.
C3_EveryVariableAssigned ==
    Finished("Sat") => \A v \in VarsOf(input) : Occurrences(ret.model, v) = 1

\* C3 amended: when solve(input) returns Sat(M), every variable of input is
\* present in M at most once, and every entry of M is a variable of input.
C3_AtMostOnceAndOfInput ==
    Finished("Sat") =>
        /\ \A v \in VarsOf(input) : Occurrences(ret.model, v) <= 1
        /\ \A k \in DOMAIN ret.model : Abs(ret.model[k]) \in VarsOf(input)

\* solve returned a model that leaves a variable of the input unassigned
C3_Witness ==
    /\ Finished("Sat")
    /\ \E v \in VarsOf(input) : Occurrences(ret.model, v) = 0
    /\ ret.model # <<>>

\* C4 model consistency: no two entries of a returned model have the same
\* magnitude, at any recursion level.
C4_ModelConsistent ==
    ret.tag = "Sat" =>
        \A i, j \in DOMAIN ret.model :
            Abs(ret.model[i]) = Abs(ret.model[j]) => i = j

\* a returned model holds propagated literals and pivots of both polarities
C4_Witness ==
    /\ ret.tag = "Sat" /\ Len(ret.model) >= 3
    /\ \A i \in DOMAIN input : Len(input[i]) = 2
    /\ \E i, j \in DOMAIN ret.model : ret.model[i] > 0 /\ ret.model[j] < 0

C6_Step ==
    LET n == Len(stack) IN
    /\ (/\ Running /\ Len(stack') = n
        /\ Len(stack'[n].assignment) > Len(stack[n].assignment))
          => Len(stack'[n].formula) < Len(stack[n].formula)
    /\ Len(stack') = n + 1 =>
          LET caller == stack'[n]
              callee == stack'[n + 1]
              v == Abs(caller.pivot)
          IN /\ v \in VarsOf(caller.formula)
             /\ v \notin VarsOf(callee.formula)
             /\ VarsOf(callee.formula) \subseteq VarsOf(caller.formula)
             /\ Cardinality(VarsOf(callee.formula))
                  < Cardinality(VarsOf(caller.formula))

C6_Termination == <>(Done /\ ret.tag \in {"Sat", "Unsat"}) /\ [][C6_Step]_vars

\* solve ended after propagating a unit literal and failing both branches of
\* a case split on the shorter, unit-free formula that propagation left
C6_Witness ==
    /\ Finished("Unsat") /\ lastSimplify # <<>>
    /\ \A i \in DOMAIN input : input[i] # <<>>
    /\ \E i \in DOMAIN input : Len(input[i]) = 1
    /\ Len(lastSimplify.formula) >= 2
    /\ Len(lastSimplify.formula) < Len(input)
    /\ \A i \in DOMAIN lastSimplify.formula : Len(lastSimplify.formula[i]) = 2
    /\ lastSimplify.lit = 0 - lastSimplify.formula[1][1]

\* C7 empty-clause short-circuit: an invocation whose working formula holds
\* an empty clause at the head of the loop returns Unsat in that very step,
\* with no literal assigned, no simplification and no recursive call.
C7_Step ==
    (/\ Running /\ Top.pc = "loop"
     /\ \E i \in DOMAIN Top.formula : Top.formula[i] = <<>>)
       => /\ stack' = SubSeq(stack, 1, Len(stack) - 1)
          /\ ret' = [tag |-> "Unsat", model |-> <<>>]
          /\ lastSimplify' = lastSimplify

C7_EmptyClauseShortCircuit == [][C7_Step]_vars

\* the outermost call returned Unsat at once although a unit clause precedes
\* the empty clause of the input
C7_Witness ==
    /\ Finished("Unsat") /\ lastSimplify = <<>>
    /\ \E i, j \in DOMAIN input : i < j /\ Len(input[i]) = 1 /\ input[j] = <<>>

\* C8 model composition: solve returns what the recursive definition gives:
\* Unsat on an empty clause, Sat(A) on the empty formula, propagation of the
\* first unit clause's literal, else the case split on the first literal p of
\* the first clause, returning S ++ A ++ [p] or else S' ++ A ++ [-p] or Unsat.
RECURSIVE C8_Reference(_, _)
C8_Reference(G, A) ==
    LET units == {i \in DOMAIN G : Len(G[i]) = 1} IN
    IF \E i \in DOMAIN G : G[i] = <<>> THEN [tag |-> "Unsat", model |-> <<>>]
    ELSE IF G = <<>> THEN [tag |-> "Sat", model |-> A]
    ELSE IF units # {} THEN
        LET u == G[Kth(units, 1)][1] IN
        C8_Reference(simplify_formula(G, u), A \o <<u>>)
    ELSE
        LET p == G[1][1]
            ra == C8_Reference(simplify_formula(G, p), <<>>)
        IN IF ra.tag = "Sat"
           THEN [tag |-> "Sat", model |-> ra.model \o A \o <<p>>]
           ELSE LET rb == C8_Reference(simplify_formula(G, 0 - p), <<>>)
                IN IF rb.tag = "Sat"
                   THEN [tag |-> "Sat", model |-> rb.model \o A \o <<0 - p>>]
                   ELSE [tag |-> "Unsat", model |-> <<>>]

C8_ModelComposition == Done => ret = C8_Reference(input, <<>>)

\* a model made of the sub-model of branch B, the literal propagated from
\* the unit clause input[1] and the negation of the pivot input[2][1]
C8_Witness ==
    /\ Finished("Sat") /\ Len(input) = 3
    /\ Len(input[1]) = 1 /\ Len(input[2]) = 2 /\ Len(input[3]) = 2
    /\ Abs(input[1][1]) \notin VarsOf(Tail(input))
    /\ Len(ret.model) = 3
    /\ ret.model[3] = 0 - input[2][1]
    /\ ret.model[2] = input[1][1]

\* C9 branching precondition: when control reaches pivot selection the
\* working formula is nonempty and every clause has at least 2 literals.
C9_BranchingPrecondition ==
    \A k \in DOMAIN stack :
        stack[k].pc = "branch" =>
            /\ Len(stack[k].formula) >= 1
            /\ \A i \in DOMAIN stack[k].formula : Len(stack[k].formula[i]) >= 2

\* a nested invocation reached pivot selection after propagating a literal
C9_Witness ==
    /\ Len(stack) >= 2 /\ Top.pc = "branch"
    /\ Top.assignment # <<>>

\* C10 recursion depth: the number of nested recursive calls below the
\* outermost call never exceeds the number of distinct variables of input.
C10_DepthBound == Len(stack) - 1 <= Cardinality(VarsOf(input))

\* the recursion is as deep as the input has variables
C10_Witness ==
    /\ Len(stack) - 1 = Cardinality(VarsOf(input))
    /\ Len(stack) >= 3

====
